---- MODULE Spec2Model ----
(***************************************************************************)
(* A model of src/main.py: the address validator, the metric providers,    *)
(* the scoring engine and the single- and multi-address endpoints.         *)
(*                                                                         *)
(* Python numbers are modelled as exact rationals <<n, d>> (d > 0, lowest  *)
(* terms).  Python's None is the empty tuple <<>> and a present value v is *)
(* <<v>>.  A dict is a function whose DOMAIN is its key set.  A function   *)
(* that may raise returns [exc |-> "none", val |-> v] or [exc |-> E], and  *)
(* with it the collaborator lookups it started, in order, in calls.        *)
(* A message string is the sequence of its words.                          *)
(***************************************************************************)
EXTENDS Integers, Sequences, FiniteSets, TLC

VARIABLES pc, endpoint, requested_addresses, idx, address_details,
          mock_data, all_addresses, calls, response, arg

vars == <<pc, endpoint, requested_addresses, idx, address_details,
          mock_data, all_addresses, calls, response, arg>>

----------------------------------------------------------------------------
(* Exact rational arithmetic standing for Python's numeric operators.      *)

Abs(x) == IF x < 0 THEN -x ELSE x

RECURSIVE GCD(_, _)
GCD(a, b) == IF b = 0 THEN a ELSE GCD(b, a % b)

Rat(n, d) ==
    LET g == GCD(Abs(n), Abs(d))
        s == IF d < 0 THEN -1 ELSE 1
    IN  <<(s * n) \div g, (s * d) \div g>>

R(n) == <<n, 1>>

RatAdd(a, b) ==
    LET g == GCD(a[2], b[2])
        l == (a[2] \div g) * b[2]
    IN  Rat(a[1] * (l \div a[2]) + b[1] * (l \div b[2]), l)

RatNeg(a) == <<-a[1], a[2]>>

RatSub(a, b) == RatAdd(a, RatNeg(b))

RatMul(a, b) ==
    LET g1 == GCD(Abs(a[1]), b[2])
        g2 == GCD(Abs(b[1]), a[2])
    IN  Rat((a[1] \div g1) * (b[1] \div g2), (a[2] \div g2) * (b[2] \div g1))

RatDiv(a, b) == RatMul(a, IF b[1] < 0 THEN <<-b[2], -b[1]>> ELSE <<b[2], b[1]>>)

RatGeq(a, b) == RatSub(a, b)[1] >= 0

RatLt(a, b) == ~RatGeq(a, b)

RatMin(a, b) == IF RatLt(b, a) THEN b ELSE a

----------------------------------------------------------------------------
(* The scoring engine.                                                     *)

Metrics == {"population_density", "crime_rate", "income", "residential_ratio",
            "noise_level", "healthcare_access", "community_engagement",
            "environmental_quality"}

MetricOrder == <<"population_density", "crime_rate", "income", "residential_ratio",
                 "noise_level", "healthcare_access", "community_engagement",
                 "environmental_quality">>

\* crime_rate weighted 2.0 for 0.2
CRITERIA_WEIGHTS_crime_rate_2 ==
    [population_density    |-> Rat(2, 10),
     crime_rate            |-> Rat(20, 10),
     income                |-> Rat(15, 100),
     residential_ratio     |-> Rat(8, 100),
     noise_level           |-> Rat(5, 100),
     healthcare_access     |-> Rat(3, 10),
     community_engagement  |-> Rat(1, 10),
     environmental_quality |-> Rat(12, 100)]

CRITERIA_WEIGHTS ==
    [population_density    |-> Rat(2, 10),
     crime_rate            |-> Rat(2, 10),
     income                |-> Rat(15, 100),
     residential_ratio     |-> Rat(8, 100),
     noise_level           |-> Rat(5, 100),
     healthcare_access     |-> Rat(3, 10),
     community_engagement  |-> Rat(1, 10),
     environmental_quality |-> Rat(12, 100)]

\* the linear score clamped to [0, 1]
normalize_clamped(value, min_val, max_val, invert) ==
    LET norm == RatDiv(RatSub(value, min_val), RatSub(max_val, min_val))
        clamped == IF RatLt(norm, R(0)) THEN R(0) ELSE RatMin(norm, R(1))
    IN  IF invert THEN RatSub(R(1), clamped) ELSE clamped

normalize(value, min_val, max_val, invert) ==
    LET norm == RatDiv(RatSub(value, min_val), RatSub(max_val, min_val))
    IN  IF invert THEN RatSub(R(1), norm) ELSE norm

\* the boundaries given to the lower band
calculate_rating_strict(score) ==
    IF RatLt(Rat(15, 10), score) THEN "Excellent"
    ELSE IF RatLt(Rat(8, 10), score) THEN "Good"
    ELSE IF RatLt(Rat(4, 10), score) THEN "Average"
    ELSE IF RatLt(Rat(2, 10), score) THEN "Poor"
    ELSE "Very Poor"

calculate_rating(score) ==
    IF RatGeq(score, Rat(15, 10)) THEN "Excellent"
    ELSE IF RatGeq(score, Rat(8, 10)) THEN "Good"
    ELSE IF RatGeq(score, Rat(4, 10)) THEN "Average"
    ELSE IF RatGeq(score, Rat(2, 10)) THEN "Poor"
    ELSE "Very Poor"

normalized_scores(data) ==
    [population_density    |-> normalize(data["population_density"], R(100), R(10000), FALSE),
     crime_rate            |-> normalize(data["crime_rate"], R(0), R(500), TRUE),
     income                |-> normalize(data["income"], R(20000), R(150000), FALSE),
     residential_ratio     |-> normalize(data["residential_ratio"], R(0), R(1), FALSE),
     noise_level           |-> normalize(data["noise_level"], R(0), R(100), TRUE),
     healthcare_access     |-> normalize(data["healthcare_access"], R(0), R(100), FALSE),
     community_engagement  |-> normalize(data["community_engagement"], R(0), R(100), FALSE),
     environmental_quality |-> normalize(data["environmental_quality"], R(0), R(100), FALSE)]

RECURSIVE WeightedSum(_, _, _)
WeightedSum(weights, scores, n) ==
    IF n = 0 THEN R(0)
    ELSE RatAdd(WeightedSum(weights, scores, n - 1),
                RatMul(weights[MetricOrder[n]], scores[MetricOrder[n]]))

evaluate_neighborhood(data) ==
    LET total_score == WeightedSum(CRITERIA_WEIGHTS, normalized_scores(data), Len(MetricOrder))
        rating == calculate_rating(total_score)
    IN  [rating |-> rating, score |-> total_score]

----------------------------------------------------------------------------
(* Python values.                                                          *)

None == <<>>

Some(v) == <<v>>

EmptyDict == [k \in {} |-> None]

DictGet(d, k) == IF k \in DOMAIN d THEN Some(d[k]) ELSE None

DictGetOr(d, k, default) == IF k \in DOMAIN d THEN d[k] ELSE default

DictSet(d, k, v) == [x \in (DOMAIN d) \cup {k} |-> IF x = k THEN v ELSE d[x]]

\* Truthiness of an optional string (None and "" are falsy).
TruthyStr(o) == o # None /\ o[1] # ""

\* Truthiness of an optional number (None and 0 are falsy).
TruthyNum(o) == o # None /\ o[1] # 0

Ok(v) == [exc |-> "none", val |-> v, calls |-> <<>>]

Raise(e) == [exc |-> e, calls |-> <<>>]

Called(name, r) == [r EXCEPT !.calls = <<name>> \o @]

After(first, r) == [r EXCEPT !.calls = first.calls \o @]

\* The subclasses of requests.exceptions.RequestException that requests.get
\* and Response.raise_for_status raise.
RequestException == {"ConnectionError", "Timeout", "HTTPError"}

----------------------------------------------------------------------------
(* The HTTP exchanges with the collaborators.  An exchange is what one     *)
(* requests.get meets: a transport failure or a response.                  *)

TransportFailure(e) == [exc |-> e]

HttpResponse(code, body) == [exc |-> "none", status_code |-> code, json |-> body]

\* requests.get followed by Response.raise_for_status and Response.json
requests_get_checked(exchange) ==
    IF exchange.exc # "none" THEN Raise(exchange.exc)
    ELSE IF exchange.status_code >= 400 THEN Raise("HTTPError")
    ELSE Ok(exchange.json)

call_api(exchange) ==
    IF exchange.exc # "none" THEN Raise(exchange.exc)
    ELSE IF exchange.status_code # 200 THEN Raise("HTTPException")
    ELSE Ok(exchange.json)

----------------------------------------------------------------------------
(* The address validator.                                                  *)

NotFoundMessage(address) == <<"The", "address", ":", address, "was", "not", "found">>

InvalidMessage(address) ==
    <<"The", "address", ":", address, "is", "invalid", ",", "please", "enter",
      "a", "residential", "address">>

\* every place type up to a country accepted
accepted_place_types_with_country == {"residential", "postcode", "city", "country"}

accepted_place_types == {"residential", "postcode", "city"}

get_address_details(address, exchange) ==
    LET data == call_api(exchange)
    IN  IF data.exc # "none" THEN Called("geocoding", data)
        ELSE IF data.val = <<>>
        THEN Called("geocoding", Ok(<<EmptyDict, FALSE, NotFoundMessage(address)>>))
        ELSE LET result == data.val[1]
                 details == DictSet(DictSet(result["address"], "lat", result["lat"]),
                                    "lon", result["lon"])
             IN  IF result["type"] \in accepted_place_types
                 THEN Called("geocoding", Ok(<<details, TRUE, <<"Address", "is", "valid">>>>))
                 ELSE Called("geocoding", Ok(<<EmptyDict, FALSE, InvalidMessage(address)>>))

\* The return value is a str (the message) or a dict (the details).
Str(s) == [type |-> "str", v |-> s]

Dict(d) == [type |-> "dict", v |-> d]

get_valid_address_details(address, exchange) ==
    LET r == get_address_details(address, exchange)
    IN  IF r.exc # "none" THEN r
        ELSE IF ~r.val[2] THEN [r EXCEPT !.val = Str(r.val[3])]
        ELSE [r EXCEPT !.val = Dict(r.val[1])]

----------------------------------------------------------------------------
(* The metric providers.  A nullable position of a JSON body holds an      *)
(* option: None for null, Some(v) for a value.                             *)

\* int(population / area), truncating toward zero
IntDiv(population, area) ==
    IF (population >= 0) = (area > 0)
    THEN Abs(population) \div Abs(area)
    ELSE -(Abs(population) \div Abs(area))

\* data.get('_links', {}).get('ua:item', {}).get('href')
UrbanAreaLink(data) ==
    DictGet(DictGetOr(DictGetOr(data, "_links", EmptyDict), "ua:item", EmptyDict), "href")

\* for item in category['data']: if item['label'] == label: x = item.get('float_value')
RECURSIVE ScanItems(_, _, _)
ScanItems(items, label, cur) ==
    IF items = <<>> THEN cur
    ELSE ScanItems(Tail(items), label,
                   IF Head(items)["label"] = label
                   THEN DictGet(Head(items), "float_value") ELSE cur)

\* for category in details.get('categories', []): ... ; pa = <<population, area>>
RECURSIVE ScanCategories(_, _)
ScanCategories(categories, pa) ==
    IF categories = <<>> THEN pa
    ELSE LET category == Head(categories)
         IN  ScanCategories(Tail(categories),
                 IF category["label"] = "Population"
                 THEN <<ScanItems(category["data"], "Population", pa[1]), pa[2]>>
                 ELSE IF category["label"] = "Geography"
                 THEN <<pa[1], ScanItems(category["data"], "Area in square kilometers", pa[2])>>
                 ELSE pa)

\* category['label'], category['data'] or item['label'] of a missing key
RaisesKeyError(categories) ==
    \E i \in 1..Len(categories) :
        \/ "label" \notin DOMAIN categories[i]
        \/ /\ categories[i]["label"] \in {"Population", "Geography"}
           /\ \/ "data" \notin DOMAIN categories[i]
              \/ \E j \in 1..Len(categories[i]["data"]) :
                     "label" \notin DOMAIN categories[i]["data"][j]

get_urban_area_density(details, locations, urban_details) ==
    IF details.type = "str" THEN Raise("AttributeError")
    ELSE IF ~TruthyStr(DictGet(details.v, "lat")) \/ ~TruthyStr(DictGet(details.v, "lon"))
    THEN Ok(None)
    ELSE LET data == requests_get_checked(locations)
         IN  IF data.exc \in RequestException THEN Called("urban_density", Ok(None))
             ELSE IF ~TruthyStr(UrbanAreaLink(data.val)) THEN Called("urban_density", Ok(None))
             ELSE LET det == requests_get_checked(urban_details)
                  IN  IF det.exc \in RequestException THEN Called("urban_density", Ok(None))
                      ELSE LET categories == DictGetOr(det.val, "categories", <<>>)
                               pa == ScanCategories(categories, <<None, None>>)
                           IN  IF RaisesKeyError(categories)
                               THEN Called("urban_density", Raise("KeyError"))
                               ELSE IF TruthyNum(pa[1]) /\ TruthyNum(pa[2])
                               THEN Called("urban_density", Ok(Some(R(IntDiv(pa[1][1], pa[2][1])))))
                               ELSE Called("urban_density", Ok(None))

\* data[1][0]['value'] if len(data) > 1 else None
IndicatorValue(data) ==
    IF Len(data) > 1
    THEN IF data[2] = None THEN Raise("TypeError")
         ELSE IF data[2][1] = <<>> THEN Raise("IndexError")
         ELSE IF "value" \notin DOMAIN data[2][1][1] THEN Raise("KeyError")
         ELSE Ok(data[2][1][1]["value"])
    ELSE Ok(None)

\* search_fuzzy is the result of the fuzzy country-name search: None stands
\* for its LookupError.
get_country_density(details, search_fuzzy, pop_exchange, area_exchange) ==
    IF DictGetOr(details.v, "country", "") = "" THEN Ok(None)
    ELSE IF search_fuzzy = None THEN Called("country_density", Ok(None))
    ELSE LET pop_data == requests_get_checked(pop_exchange)
             population == IndicatorValue(pop_data.val)
             area_data == requests_get_checked(area_exchange)
             area == IndicatorValue(area_data.val)
             caught == RequestException \cup {"KeyError", "IndexError"}
         IN  IF pop_data.exc \in caught THEN Called("country_density", Ok(None))
             ELSE IF population.exc \in caught THEN Called("country_density", Ok(None))
             ELSE IF population.exc # "none" THEN Called("country_density", population)
             ELSE IF area_data.exc \in caught THEN Called("country_density", Ok(None))
             ELSE IF area.exc \in caught THEN Called("country_density", Ok(None))
             ELSE IF area.exc # "none" THEN Called("country_density", area)
             ELSE IF TruthyNum(population.val) /\ TruthyNum(area.val)
             THEN Called("country_density", Ok(Some(R(IntDiv(population.val[1], area.val[1])))))
             ELSE Called("country_density", Ok(None))

\* the country lookup skipped
get_population_density_score_urban_only(details, env) ==
    LET urban == get_urban_area_density(details, env.locations, env.urban_details)
    IN  IF urban.exc # "none" THEN urban
        ELSE IF urban.val # None THEN [urban EXCEPT !.val = urban.val[1]]
        ELSE [urban EXCEPT !.val = R(5000)]

get_population_density_score(details, env) ==
    LET urban == get_urban_area_density(details, env.locations, env.urban_details)
        country == get_country_density(details, env.search_fuzzy, env.population, env.area)
    IN  IF urban.exc # "none" THEN urban
        ELSE IF urban.val # None THEN [urban EXCEPT !.val = urban.val[1]]
        ELSE IF country.exc # "none" THEN After(urban, country)
        ELSE IF country.val # None THEN After(urban, [country EXCEPT !.val = country.val[1]])
        ELSE After(urban, [country EXCEPT !.val = R(5000)])

get_crime_score(details, exchange) ==
    IF details.type = "str" THEN Raise("AttributeError")
    ELSE IF ~TruthyStr(DictGet(details.v, "lat")) \/ ~TruthyStr(DictGet(details.v, "lon"))
    THEN Ok(R(25))
    ELSE LET crimes == call_api(exchange)
         IN  IF crimes.exc \in RequestException THEN Called("crime", Ok(R(25)))
             ELSE IF crimes.exc # "none" THEN Called("crime", crimes)
             ELSE LET total_crimes == Len(crimes.val)
                      max_crimes == 500
                  IN  Called("crime",
                          Ok(RatMin(RatMul(Rat(total_crimes, max_crimes), R(100)), R(100))))

\* str.lower() on the building tags the collaborator sends
Lower(tag) ==
    CASE tag = "House" -> "house"
      [] tag = "Apartments" -> "apartments"
      [] tag = "Residential" -> "residential"
      [] OTHER -> tag

\* 'residential' in b
ContainsResidential(b) == b \in {"residential", "semi_residential"}

IsResidentialTag(b) ==
    ContainsResidential(b) \/ b \in {"house", "apartments", "detached", "semidetached_house"}

RECURSIVE CountResidential(_)
CountResidential(building_tags) ==
    IF building_tags = <<>> THEN 0
    ELSE (IF IsResidentialTag(Head(building_tags)) THEN 1 ELSE 0)
         + CountResidential(Tail(building_tags))

get_residential_ratio(address, exchange) ==
    LET data == call_api(exchange)
    IN  IF address.type = "str" THEN Raise("AttributeError")
        ELSE IF data.exc # "none" THEN Called("buildings", data)
        ELSE LET elements == DictGetOr(data.val, "elements", <<>>)
                 building_tags ==
                     [i \in 1..Len(elements) |->
                         Lower(DictGetOr(DictGetOr(elements[i], "tags", EmptyDict), "building", ""))]
                 residential_count == CountResidential(building_tags)
                 total_count == Len(building_tags)
             IN  IF building_tags = <<>> THEN Called("buildings", Ok(R(0)))
                 ELSE Called("buildings", Ok(Rat(residential_count, total_count)))

\* The dict literal of get_neighbourhood_data once its three calls returned.
get_neighbourhood_data(population_density, crime_rate, residential_ratio) ==
    [population_density    |-> population_density,
     crime_rate            |-> crime_rate,
     income                |-> R(60000),
     residential_ratio     |-> residential_ratio,
     noise_level           |-> R(30),
     healthcare_access     |-> R(85),
     community_engagement  |-> R(70),
     environmental_quality |-> R(75)]

get_algorithm_results(addresses) ==
    [i \in 1..Len(addresses) |->
        [address |-> addresses[i].name, data |-> evaluate_neighborhood(addresses[i].data)]]

----------------------------------------------------------------------------
(* What the collaborators can answer.                                      *)

MaxAddresses == 2

Addresses == {"10 Downing Street", "Atlantis"}

RequestBodies == UNION {[1..n -> Addresses] : n \in 0..MaxAddresses}

Candidate(type, lat, lon, address) ==
    [type |-> type, lat |-> lat, lon |-> lon, address |-> address]

GeocodingExchanges ==
    {TransportFailure("ConnectionError"),
     HttpResponse(503, <<>>),
     HttpResponse(200, <<>>),
     HttpResponse(200, <<Candidate("residential", "51.50", "-0.12", [country |-> "United Kingdom"])>>),
     HttpResponse(200, <<Candidate("postcode", "51.50", "-0.12", [country |-> "United Kingdom"])>>),
     HttpResponse(200, <<Candidate("city", "", "", EmptyDict)>>),
     HttpResponse(200, <<Candidate("country", "54.70", "-3.27", [country |-> "United Kingdom"])>>),
     HttpResponse(200, <<Candidate("administrative", "52.53", "-1.26", [country |-> "United Kingdom"])>>)}

UrbanAreaBody(href) == ("_links" :> ("ua:item" :> ("href" :> href)))

Category(label, item_label, float_value) ==
    [label |-> label, data |-> <<[label |-> item_label, float_value |-> float_value]>>]

Indicator(value) == <<[page |-> 1], Some(<<[value |-> value]>>)>>

DensityEnvironment(locations, urban_details, search_fuzzy, population, area) ==
    [locations |-> locations, urban_details |-> urban_details,
     search_fuzzy |-> search_fuzzy, population |-> population, area |-> area]

LocationsFound ==
    HttpResponse(200, UrbanAreaBody("https://api.teleport.org/api/urban_areas/slug:london/"))

UrbanAreaDetails(population, area) ==
    HttpResponse(200, [categories |->
        <<Category("Population", "Population", population),
          Category("Geography", "Area in square kilometers", area)>>])

\* One environment per way through the urban-area and the country lookups.
DensityEnvironments ==
    LET area_details == UrbanAreaDetails(9000000, 1572)
        no_area == HttpResponse(200, [categories |->
                            <<Category("Population", "Population", 9000000)>>])
        no_label == HttpResponse(200, [categories |-> <<[data |-> <<>>]>>])
        timeout == TransportFailure("Timeout")
        refused == TransportFailure("ConnectionError")
        people == HttpResponse(200, Indicator(Some(36686)))
        land == HttpResponse(200, Indicator(Some(2)))
    IN  {DensityEnvironment(LocationsFound, area_details, Some("MCO"), people, land),
         DensityEnvironment(LocationsFound, area_details, None, timeout, timeout),
         DensityEnvironment(refused, timeout, Some("MCO"), people, land),
         DensityEnvironment(LocationsFound, no_area, Some("MCO"), people, land),
         DensityEnvironment(HttpResponse(404, EmptyDict), timeout, Some("MCO"),
                            HttpResponse(502, <<>>), land),
         DensityEnvironment(HttpResponse(200, EmptyDict), timeout, None, people, land),
         DensityEnvironment(LocationsFound, timeout, Some("MCO"), people,
                            HttpResponse(200, <<[message |-> "Invalid value"]>>)),
         DensityEnvironment(timeout, timeout, Some("MCO"),
                            HttpResponse(200, Indicator(None)), land),
         DensityEnvironment(refused, timeout, Some("MCO"),
                            HttpResponse(200, <<[page |-> 0], Some(<<>>)>>), land),
         DensityEnvironment(refused, timeout, Some("MCO"), timeout, refused),
         DensityEnvironment(LocationsFound, no_label, Some("MCO"), people, land),
         DensityEnvironment(timeout, timeout, Some("MCO"),
                            HttpResponse(200, <<[page |-> 0], None>>), land)}

Crimes(n) == [i \in 1..n |-> [category |-> "burglary"]]

CrimeExchanges ==
    {TransportFailure("Timeout"),
     HttpResponse(503, <<>>),
     HttpResponse(200, Crimes(125)),
     HttpResponse(200, Crimes(600))}

Building(tag) == [tags |-> [building |-> tag]]

BuildingExchanges ==
    {TransportFailure("ConnectionError"),
     HttpResponse(429, EmptyDict),
     HttpResponse(200, EmptyDict),
     HttpResponse(200, [elements |-> <<Building("House"), Building("commercial")>>]),
     HttpResponse(200, [elements |-> <<Building("Residential"), Building("yes")>>]),
     HttpResponse(200, [elements |-> <<[id |-> 7]>>])}

----------------------------------------------------------------------------
(* The two endpoints, one step per call of a collaborator-facing function. *)

NoResponse == [kind |-> "none"]

\* address_details before get_valid_address_details returned
Unassigned == [type |-> "unassigned"]

Init ==
    /\ pc = "idle"
    /\ endpoint = "none"
    /\ requested_addresses = <<>>
    /\ idx = 0
    /\ address_details = Unassigned
    /\ mock_data = EmptyDict
    /\ all_addresses = <<>>
    /\ calls = <<>>
    /\ response = NoResponse
    /\ arg = None

\* The argument of get_address_data at the current position.
CurrentDetails ==
    IF endpoint = "single" THEN address_details ELSE all_addresses[idx].details

Fail(r) ==
    /\ response' = [kind |-> "error", exc |-> r.exc]
    /\ pc' = "done"

PostSingleAddress(requested_address) ==
    /\ pc = "idle"
    /\ endpoint' = "single"
    /\ requested_addresses' = <<requested_address>>
    /\ idx' = 1
    /\ pc' = "validate"
    /\ UNCHANGED <<address_details, mock_data, all_addresses, calls, response, arg>>

PostManyAddresses(body) ==
    /\ pc = "idle"
    /\ endpoint' = "many"
    /\ requested_addresses' = body
    /\ idx' = 1
    /\ pc' = IF body = <<>> THEN "score" ELSE "validate"
    /\ UNCHANGED <<address_details, mock_data, all_addresses, calls, response, arg>>

ValidateAddress(exchange) ==
    /\ pc = "validate"
    /\ LET requested_address == requested_addresses[idx]
           r == get_valid_address_details(requested_address, exchange)
       IN  /\ calls' = calls \o r.calls
           /\ IF r.exc # "none"
              THEN Fail(r) /\ UNCHANGED <<idx, address_details, all_addresses>>
              ELSE IF endpoint = "single"
              THEN /\ address_details' = r.val
                   /\ IF r.val.type = "str"
                      THEN response' = [kind |-> "message", body |-> r.val.v] /\ pc' = "done"
                      ELSE pc' = "density" /\ UNCHANGED response
                   /\ UNCHANGED <<idx, all_addresses>>
              ELSE /\ all_addresses' = Append(all_addresses,
                           [name |-> requested_address, details |-> r.val, data |-> EmptyDict])
                   /\ IF idx = Len(requested_addresses)
                      THEN idx' = 1 /\ pc' = "density"
                      ELSE idx' = idx + 1 /\ pc' = "validate"
                   /\ UNCHANGED <<address_details, response>>
    /\ UNCHANGED <<endpoint, requested_addresses, mock_data, arg>>

FetchPopulationDensity(env) ==
    /\ pc = "density"
    /\ LET r == get_population_density_score(CurrentDetails, env)
       IN  /\ calls' = calls \o r.calls
           /\ IF r.exc # "none"
              THEN Fail(r) /\ UNCHANGED mock_data
              ELSE /\ mock_data' = [population_density |-> r.val]
                   /\ pc' = "crime"
                   /\ UNCHANGED response
    /\ UNCHANGED <<endpoint, requested_addresses, idx, address_details, all_addresses, arg>>

FetchCrimeScore(exchange) ==
    /\ pc = "crime"
    /\ LET r == get_crime_score(CurrentDetails, exchange)
       IN  /\ calls' = calls \o r.calls
           /\ IF r.exc # "none"
              THEN Fail(r) /\ UNCHANGED mock_data
              ELSE /\ mock_data' = DictSet(mock_data, "crime_rate", r.val)
                   /\ pc' = "residential"
                   /\ UNCHANGED response
    /\ UNCHANGED <<endpoint, requested_addresses, idx, address_details, all_addresses, arg>>

FetchResidentialRatio(exchange) ==
    /\ pc = "residential"
    /\ LET r == get_residential_ratio(CurrentDetails, exchange)
           data == get_neighbourhood_data(mock_data["population_density"],
                                          mock_data["crime_rate"], r.val)
       IN  /\ calls' = calls \o r.calls
           /\ IF r.exc # "none"
              THEN Fail(r) /\ UNCHANGED <<mock_data, idx, all_addresses>>
              ELSE IF endpoint = "single"
              THEN /\ mock_data' = data
                   /\ pc' = "score"
                   /\ UNCHANGED <<idx, all_addresses, response>>
              ELSE /\ all_addresses' = [all_addresses EXCEPT ![idx].data = data]
                   /\ mock_data' = EmptyDict
                   /\ IF idx = Len(all_addresses)
                      THEN idx' = idx /\ pc' = "score"
                      ELSE idx' = idx + 1 /\ pc' = "density"
                   /\ UNCHANGED response
    /\ UNCHANGED <<endpoint, requested_addresses, address_details, arg>>

ReturnResult ==
    /\ pc = "score"
    /\ response' = IF endpoint = "single"
                   THEN [kind |-> "result", body |-> evaluate_neighborhood(mock_data)]
                   ELSE [kind |-> "results", body |-> get_algorithm_results(all_addresses)]
    /\ pc' = "done"
    /\ UNCHANGED <<endpoint, requested_addresses, idx, address_details, mock_data,
                   all_addresses, calls, arg>>

Next ==
    \/ \E requested_address \in Addresses : PostSingleAddress(requested_address)
    \/ \E body \in RequestBodies : PostManyAddresses(body)
    \/ \E exchange \in GeocodingExchanges : ValidateAddress(exchange)
    \/ \E env \in DensityEnvironments : FetchPopulationDensity(env)
    \/ \E exchange \in CrimeExchanges : FetchCrimeScore(exchange)
    \/ \E exchange \in BuildingExchanges : FetchResidentialRatio(exchange)
    \/ ReturnResult

Spec == Init /\ [][Next]_vars

----------------------------------------------------------------------------
(* The functions called on their own: the scoring engine on any record,    *)
(* and on every record the providers can hand to it.                       *)

SampleDetails ==
    {Dict([country |-> "United Kingdom", lat |-> "51.50", lon |-> "-0.12"]),
     Dict([lat |-> "51.50", lon |-> "-0.12"]),
     Dict([country |-> "United Kingdom", lat |-> "", lon |-> ""]),
     Dict([lat |-> "", lon |-> ""])}

SampleDensityEnvironments ==
    DensityEnvironments \cup
    {DensityEnvironment(LocationsFound, UrbanAreaDetails(pa[1], pa[2]), None,
                        TransportFailure("Timeout"), TransportFailure("Timeout")) :
        pa \in {<<100, 400>>, <<700, 7>>, <<50000, 5>>, <<50005, 5>>, <<1780000, 42>>}}

SampleCrimeExchanges ==
    CrimeExchanges \cup
    {HttpResponse(200, Crimes(n)) : n \in {0, 1, 137, 499, 500, 501}}

SampleBuildingExchanges ==
    BuildingExchanges \cup
    {HttpResponse(200, [elements |-> <<Building("House"), Building("Apartments")>>]),
     HttpResponse(200, [elements |-> <<Building("detached"), Building("retail"), Building("yes")>>]),
     HttpResponse(200, [elements |-> <<Building("semi_residential")>>])}

Returned(results) == {r.val : r \in {x \in results : x.exc = "none"}}

PopulationDensities ==
    Returned({get_population_density_score(d, env) :
                 d \in SampleDetails, env \in SampleDensityEnvironments})

CrimeScores ==
    Returned({get_crime_score(d, exchange) : d \in SampleDetails, exchange \in SampleCrimeExchanges})

ResidentialRatios ==
    Returned({get_residential_ratio(d, exchange) :
                 d \in SampleDetails, exchange \in SampleBuildingExchanges})

\* The records get_neighbourhood_data returns.
NeighbourhoodRecords ==
    {get_neighbourhood_data(d, c, r) :
        d \in PopulationDensities, c \in CrimeScores, r \in ResidentialRatios}

\* Records with values inside and outside the normalisation ranges.
OtherRecords ==
    [population_density    : {R(100), R(5000), R(20000)},
     crime_rate            : {R(0), R(50), R(600)},
     income                : {R(20000), R(60000)},
     residential_ratio     : {R(0), Rat(8, 10)},
     noise_level           : {R(30), R(120)},
     healthcare_access     : {R(85)},
     community_engagement  : {R(0), R(70)},
     environmental_quality : {R(75)}]

Scores ==
    {Rat(n, 10000) : n \in {-5000, -1, 0, 1, 1999, 2000, 2001, 3999, 4000, 4001,
                            7999, 8000, 8001, 14999, 15000, 15001, 30000}}

NormalizeArguments ==
    {<<R(600), R(0), R(500), TRUE>>, <<R(600), R(0), R(500), FALSE>>,
     <<R(50), R(100), R(10000), FALSE>>, <<R(30), R(0), R(100), TRUE>>,
     <<R(60000), R(20000), R(150000), FALSE>>}

FunctionCalls ==
    {[fn |-> "evaluate_neighborhood", data |-> d] : d \in NeighbourhoodRecords \cup OtherRecords}
    \cup {[fn |-> "calculate_rating", score |-> x] : x \in Scores}
    \cup {[fn |-> "normalize", args |-> x] : x \in NormalizeArguments}
    \cup {[fn |-> "get_address_details", address |-> a, exchange |-> e] :
              a \in Addresses, e \in GeocodingExchanges}
    \cup {[fn |-> "get_population_density_score", details |-> d, env |-> e] :
              d \in SampleDetails, e \in SampleDensityEnvironments}
    \cup {[fn |-> "get_crime_score", details |-> d, exchange |-> e] :
              d \in SampleDetails, e \in SampleCrimeExchanges}

FunctionsInit ==
    /\ pc = "call"
    /\ arg \in FunctionCalls
    /\ endpoint = "none"
    /\ requested_addresses = <<>>
    /\ idx = 0
    /\ address_details = Unassigned
    /\ mock_data = EmptyDict
    /\ all_addresses = <<>>
    /\ calls = <<>>
    /\ response = NoResponse

Return(value) ==
    /\ pc = "call"
    /\ response' = [kind |-> "returned", body |-> value]
    /\ pc' = "returned"
    /\ UNCHANGED <<endpoint, requested_addresses, idx, address_details, mock_data,
                   all_addresses, calls, arg>>

CallEvaluateNeighborhood ==
    /\ arg.fn = "evaluate_neighborhood"
    /\ Return(evaluate_neighborhood(arg.data))

CallCalculateRating ==
    /\ arg.fn = "calculate_rating"
    /\ Return(calculate_rating(arg.score))

CallNormalize ==
    /\ arg.fn = "normalize"
    /\ Return(normalize(arg.args[1], arg.args[2], arg.args[3], arg.args[4]))

CallGetAddressDetails ==
    /\ arg.fn = "get_address_details"
    /\ Return(get_address_details(arg.address, arg.exchange))

CallGetPopulationDensityScore ==
    /\ arg.fn = "get_population_density_score"
    /\ Return(get_population_density_score(arg.details, arg.env))

CallGetCrimeScore ==
    /\ arg.fn = "get_crime_score"
    /\ Return(get_crime_score(arg.details, arg.exchange))

FunctionsNext ==
    \/ CallEvaluateNeighborhood
    \/ CallCalculateRating
    \/ CallNormalize
    \/ CallGetAddressDetails
    \/ CallGetPopulationDensityScore
    \/ CallGetCrimeScore

FunctionsSpec == FunctionsInit /\ [][FunctionsNext]_vars

----------------------------------------------------------------------------
(* The endpoints' contracts.                                               *)

Finished == pc = "done"

\* The multi-address request got through its validation loop.
BatchValidated ==
    /\ endpoint = "many"
    /\ Len(all_addresses) = Len(requested_addresses)

Rejected(i) == all_addresses[i].details.type = "str"

\* The request ended in an exception raised while the batch was handling an
\* address its validation had accepted.
FailedOnAccepted == response.kind = "error" /\ ~Rejected(idx)

\* C1: a finished multi-address request over N addresses, rejected ones
\* among them or not, answers a list of N entries in the order of the input,
\* entry i carrying the i-th input string as its address (requests that a
\* collaborator's exception ended on an accepted address set aside).
C1_BatchAnswersEveryAddressInOrder ==
    (Finished /\ BatchValidated /\ ~FailedOnAccepted)
        => /\ response.kind = "results"
           /\ Len(response.body) = Len(requested_addresses)
           /\ \A i \in 1..Len(requested_addresses) :
                  response.body[i].address = requested_addresses[i]

\* C2: in a finished multi-address request that holds a rejected and an
\* accepted address, the rejected one does not abort the batch: the request
\* answers its results, and every accepted address has its {rating, score}.
C2_RejectedAddressDoesNotAbortBatch ==
    (/\ Finished /\ BatchValidated /\ ~FailedOnAccepted
     /\ \E i \in 1..Len(all_addresses) : Rejected(i)
     /\ \E j \in 1..Len(all_addresses) : ~Rejected(j))
        => /\ response.kind = "results"
           /\ \A j \in 1..Len(all_addresses) :
                  ~Rejected(j) =>
                      /\ DOMAIN all_addresses[j].data = Metrics
                      /\ response.body[j].data = evaluate_neighborhood(all_addresses[j].data)

\* The request ended in an exception raised by a metric provider working on
\* an address the validation had accepted.
MetricFailurePropagated ==
    /\ Finished
    /\ response.kind = "error"
    /\ \/ endpoint = "single" /\ address_details.type = "dict"
       \/ BatchValidated /\ all_addresses # <<>> /\ ~Rejected(idx)

\* C3: no failure of a metric collaborator propagates out of
\* get_neighbourhood_data to an endpoint: for an accepted address the
\* providers always hand over a record.
C3_NoMetricFailurePropagates == ~MetricFailurePropagated

\* C4: a finished single-address request whose validation returned answers
\* exactly the rejection message, no metric lookup made, when the address was
\* rejected, and the {rating, score} of the full metric record when it was
\* accepted.
C4_SingleAddressResponse ==
    (Finished /\ endpoint = "single" /\ address_details.type # "unassigned")
        => IF address_details.type = "str"
           THEN /\ response = [kind |-> "message", body |-> address_details.v]
                /\ calls = <<"geocoding">>
                /\ mock_data = EmptyDict
           ELSE /\ response.kind = "result"
                /\ DOMAIN mock_data = Metrics
                /\ response.body = evaluate_neighborhood(mock_data)

----------------------------------------------------------------------------
(* The functions' contracts.                                               *)

ReturnedFrom(fn) == pc = "returned" /\ arg.fn = fn

\* The exchange ended in a transport error, a timeout or a non-success status.
ExchangeFailed(exchange) ==
    \/ exchange.exc # "none"
    \/ exchange.status_code < 200
    \/ exchange.status_code >= 300

CoordinatesMissing(details) ==
    \/ "lat" \notin DOMAIN details.v
    \/ "lon" \notin DOMAIN details.v
    \/ details.v["lat"] = ""
    \/ details.v["lon"] = ""

\* the message holds the words of sub, in a row
Contains(message, sub) ==
    \E i \in 1..(Len(message) - Len(sub) + 1) :
        SubSeq(message, i, i + Len(sub) - 1) = sub

\* C5: get_address_details accepts exactly when the geocoder answered a
\* candidate of place type residential, postcode or city, and the details
\* then carry the candidate's lat and lon; without a candidate the message
\* contains "not found", for another place type it contains "invalid", and
\* both messages name the input string.
C5_ValidatorAcceptsByPlaceType ==
    ReturnedFrom("get_address_details") =>
        LET exchange == arg.exchange
            answered == exchange.exc = "none" /\ exchange.status_code = 200
            result == response.body
            accepted == result.exc = "none" /\ result.val[2]
        IN  /\ accepted <=>
                  (/\ answered
                   /\ exchange.json # <<>>
                   /\ exchange.json[1].type \in {"residential", "postcode", "city"})
            /\ accepted =>
                  /\ result.val[1]["lat"] = exchange.json[1].lat
                  /\ result.val[1]["lon"] = exchange.json[1].lon
            /\ (answered /\ exchange.json = <<>>) =>
                  /\ result.exc = "none"
                  /\ ~result.val[2]
                  /\ Contains(result.val[3], <<"not", "found">>)
                  /\ Contains(result.val[3], <<arg.address>>)
            /\ (answered /\ exchange.json # <<>> /\ ~accepted) =>
                  /\ result.exc = "none"
                  /\ Contains(result.val[3], <<"invalid">>)
                  /\ Contains(result.val[3], <<arg.address>>)

C5_Witness ==
    /\ ReturnedFrom("get_address_details")
    /\ arg.exchange.exc = "none"
    /\ arg.exchange.status_code = 200
    /\ arg.exchange.json # <<>>
    /\ arg.exchange.json[1].type = "postcode"
    /\ response.body.val[2]
    /\ response.body.val[1]["lat"] = "51.50"

RatingByThresholds(score) ==
    LET n == score[1]
        d == score[2]
    IN  IF 10 * n >= 15 * d THEN "Excellent"
        ELSE IF 10 * n >= 8 * d /\ 10 * n < 15 * d THEN "Good"
        ELSE IF 10 * n >= 4 * d /\ 10 * n < 8 * d THEN "Average"
        ELSE IF 10 * n >= 2 * d /\ 10 * n < 4 * d THEN "Poor"
        ELSE "Very Poor"

Rank(rating) ==
    CASE rating = "Very Poor" -> 0
      [] rating = "Poor" -> 1
      [] rating = "Average" -> 2
      [] rating = "Good" -> 3
      [] rating = "Excellent" -> 4

\* C7: calculate_rating gives every score the rating of its band, each
\* boundary value belonging to the higher band, and never gives a higher
\* score a lower rating.
C7_RatingThresholds ==
    ReturnedFrom("calculate_rating") =>
        /\ response.body = RatingByThresholds(arg.score)
        /\ arg.score = <<3, 2>> => response.body = "Excellent"
        /\ arg.score = <<4, 5>> => response.body = "Good"
        /\ arg.score = <<2, 5>> => response.body = "Average"
        /\ arg.score = <<1, 5>> => response.body = "Poor"
        /\ \A lower \in Scores :
               lower[1] * arg.score[2] <= arg.score[1] * lower[2]
                   => Rank(calculate_rating(lower)) <= Rank(response.body)

C7_Witness ==
    /\ ReturnedFrom("calculate_rating")
    /\ arg.score = <<4, 5>>
    /\ response.body = "Good"

\* C8: get_crime_score returns min((incident_count / 500) * 100, 100) when
\* the crime query succeeds and exactly 25 when the coordinates are missing
\* or the query fails, so its value always lies in [0, 100].
C8_CrimeScoreOrFallback ==
    ReturnedFrom("get_crime_score") =>
        LET result == response.body
            count == Len(arg.exchange.json)
        IN  /\ result.exc = "none"
            /\ result.val[1] >= 0
            /\ result.val[1] <= 100 * result.val[2]
            /\ IF CoordinatesMissing(arg.details) \/ ExchangeFailed(arg.exchange)
               THEN result.val = <<25, 1>>
               ELSE result.val = (IF count >= 500 THEN <<100, 1>> ELSE Rat(count, 5))

\* The ranges and weights of the eight metrics: <<key, weight in hundredths,
\* min, max, inverted>>.
ScoringTable ==
    <<<<"population_density", 20, 100, 10000, FALSE>>,
      <<"crime_rate", 20, 0, 500, TRUE>>,
      <<"income", 15, 20000, 150000, FALSE>>,
      <<"residential_ratio", 8, 0, 1, FALSE>>,
      <<"noise_level", 5, 0, 100, TRUE>>,
      <<"healthcare_access", 30, 0, 100, FALSE>>,
      <<"community_engagement", 10, 0, 100, FALSE>>,
      <<"environmental_quality", 12, 0, 100, FALSE>>>>

\* (value - min) / (max - min) of the value n/d, or 1 minus it, unclamped
LinearScore(row, value) ==
    LET plain == Rat(value[1] - row[3] * value[2], value[2] * (row[4] - row[3]))
    IN  IF row[5] THEN RatSub(<<1, 1>>, plain) ELSE plain

RECURSIVE TableTotal(_, _)
TableTotal(data, n) ==
    IF n = 0 THEN <<0, 1>>
    ELSE RatAdd(TableTotal(data, n - 1),
                RatMul(Rat(ScoringTable[n][2], 100),
                       LinearScore(ScoringTable[n], data[ScoringTable[n][1]])))

\* C9: evaluate_neighborhood returns as score the sum over the eight metrics
\* of weight times the unclamped linear score (crime_rate and noise_level
\* inverted), a crime_rate of 600 normalising to -0.2, and as rating the
\* rating of that score.
C9_WeightedSumOfNormalizedMetrics ==
    /\ ReturnedFrom("evaluate_neighborhood") =>
          /\ response.body.score = TableTotal(arg.data, Len(ScoringTable))
          /\ response.body.rating = calculate_rating(response.body.score)
    /\ (ReturnedFrom("normalize") /\ arg.args = <<<<600, 1>>, <<0, 1>>, <<500, 1>>, TRUE>>)
          => response.body = <<-1, 5>>

C9_Witness ==
    /\ ReturnedFrom("evaluate_neighborhood")
    /\ arg.data["crime_rate"] = <<600, 1>>
    /\ arg.data["population_density"] = <<20000, 1>>
    /\ response.body.score = TableTotal(arg.data, Len(ScoringTable))

\* C10: a record of get_neighbourhood_data with population_density >= 0 has
\* crime_rate in [0, 100], residential_ratio in [0, 1] and the constants
\* 60000, 30, 85, 70, 75; its score is at least 0.4, so its rating is
\* neither Poor nor Very Poor; with population_density <= 10000 its score is
\* below 1.5 and its rating is Average or Good.
C10_DefaultPipelineRatings ==
    (/\ ReturnedFrom("evaluate_neighborhood")
     /\ arg.data \in NeighbourhoodRecords
     /\ arg.data["population_density"][1] >= 0)
        => LET data == arg.data
               score == response.body.score
               rating == response.body.rating
           IN  /\ data["crime_rate"][1] >= 0
               /\ data["crime_rate"][1] <= 100 * data["crime_rate"][2]
               /\ data["residential_ratio"][1] >= 0
               /\ data["residential_ratio"][1] <= data["residential_ratio"][2]
               /\ data["income"] = <<60000, 1>>
               /\ data["noise_level"] = <<30, 1>>
               /\ data["healthcare_access"] = <<85, 1>>
               /\ data["community_engagement"] = <<70, 1>>
               /\ data["environmental_quality"] = <<75, 1>>
               /\ 5 * score[1] >= 2 * score[2]
               /\ rating \notin {"Poor", "Very Poor"}
               /\ data["population_density"][1] <= 10000 * data["population_density"][2]
                     => /\ 2 * score[1] < 3 * score[2]
                        /\ rating \in {"Average", "Good"}

C10_Witness ==
    /\ ReturnedFrom("evaluate_neighborhood")
    /\ arg.data \in NeighbourhoodRecords
    /\ arg.data["population_density"] = <<0, 1>>
    /\ arg.data["crime_rate"] = <<100, 1>>
    /\ arg.data["residential_ratio"] = <<0, 1>>
    /\ response.body.rating = "Average"

====
